---- MODULE Spec2Model ----
(***************************************************************************)
(* A model of the two grid simulations of the repository:                  *)
(*   VirusModel  (src/infection-model/infection_model.py)                   *)
(*   Schelling   (src/schelling-model/schelling_model.py)                   *)
(* and of the list primitive intersection (src/schelling-model/             *)
(* list_funcs.py).                                                          *)
(*                                                                          *)
(* A Python dict is a sequence of <<key, value>> pairs in insertion order   *)
(* (assignment to an existing key keeps its position, a new key goes to the *)
(* end, del removes the pair).  A Python list is a sequence.  A coordinate  *)
(* is a pair <<x, y>>.  A float ratio is its numerator over a fixed         *)
(* denominator (RatioDen, TolDen, RollDen).                                 *)
(***************************************************************************)
EXTENDS Integers, Sequences, FiniteSets, TLC

\* ------------------------------------------------------------------ bounds
\* grids have height <= width and height * width <= MaxCells
MaxCells == 3
\* num_iter ranges over 0..MaxIter
MaxIter == 2
\* cycle_time ranges over 0..MaxCycle
MaxCycle == 1
\* max_range ranges over 1..MaxRange
MaxRange == 2
\* num_races ranges over 1..MaxRaces
MaxRaces == 2
\* ratio_empty and ratio_infected are k / RatioDen
RatioDen == 2
\* tolerance is k / TolDen
TolDen == 2
\* random.random() returns k / RollDen with k in 0..RollDen-1, mortality is
\* k / RollDen
RollDen == 2
\* the lists given to intersection have at most MaxLen elements drawn from
\* 0..MaxElem
MaxLen == 3
MaxElem == 1

VARIABLES
  self,                \* what runs: "VirusModel", "Schelling" or "intersection"
  pc,                  \* position of the driver / of update
  err,                 \* the exception that ended the run, or "none"
  height, width, ratio_empty, num_iter,             \* both constructors
  mortality, cycle_time, ratio_infected, max_range, \* VirusModel.__init__
  tolerance, num_races,                             \* Schelling.__init__
  n_empty,
  infected_agents, healthy_agents, empty_spots,
  infected_population, healthy_population, deaths_per_iter,
  old_h_agents, old_i_agents, n_deaths,
  i,                   \* the loop variable of "for i in range(num_iter)"
  idx,                 \* 1-based position of the inner for loop in its snapshot
  agents, empty_houses, changes_per_iter, old_agents, n_changes,
  ls1, ls2, ls3,       \* arguments and result of a call of intersection
  hist                 \* history: what happened to each agent processed so
                       \* far in the current iteration

params    == <<height, width, ratio_empty, num_iter, mortality, cycle_time,
               ratio_infected, max_range, tolerance, num_races>>
virusVars == <<infected_agents, healthy_agents, empty_spots,
               infected_population, healthy_population, deaths_per_iter,
               old_h_agents, old_i_agents, n_deaths>>
schVars   == <<agents, empty_houses, changes_per_iter, old_agents, n_changes>>
listVars  == <<ls1, ls2, ls3>>
vars      == <<self, pc, err, params, n_empty, virusVars, i, idx, schVars, listVars,
               hist>>

\* ------------------------------------------------------------ Python lists
Range(s) == {s[k] : k \in 1..Len(s)}

Min(a, b) == IF a < b THEN a ELSE b
Max(a, b) == IF a > b THEN a ELSE b

\* round(num / den) for num >= 0, den > 0, halves rounded up, in the place of
\* int(num / den)
PyInt_round(num, den) == (2 * num + den) \div (2 * den)

\* int(num / den) for den > 0: truncation toward zero
PyInt(num, den) == IF num >= 0 THEN num \div den ELSE -((-num) \div den)

\* the position a slice bound n denotes in a list of length len
SliceBound(n, len) == IF n < 0 THEN Max(len + n, 0) ELSE Min(n, len)

\* s[:n] and s[n:]
SliceTo(s, n)   == SubSeq(s, 1, SliceBound(n, Len(s)))
SliceFrom(s, n) == SubSeq(s, SliceBound(n, Len(s)) + 1, Len(s))

\* s[start::step] for 0 <= start, step > 0
SliceStep(s, start, step) ==
  LET cnt == IF Len(s) > start THEN (Len(s) - start + step - 1) \div step ELSE 0
  IN  [k \in 1..cnt |-> s[start + (k - 1) * step + 1]]

\* list.remove(v): drops the first occurrence of v
ListRemove(s, v) ==
  IF v \in Range(s)
  THEN LET p == CHOOSE k \in 1..Len(s) : s[k] = v /\ \A j \in 1..(k - 1) : s[j] # v
       IN  SubSeq(s, 1, p - 1) \o SubSeq(s, p + 1, Len(s))
  ELSE s

\* list(itertools.product(range(x0, x1), range(y0, y1)))
Product(x0, x1, y0, y1) ==
  LET nx == Max(x1 - x0, 0)
      ny == Max(y1 - y0, 0)
  IN  [k \in 1..(nx * ny) |-> <<x0 + ((k - 1) \div ny), y0 + ((k - 1) % ny)>>]

RECURSIVE SumSeq(_)
SumSeq(s) == IF s = <<>> THEN 0 ELSE s[1] + SumSeq(Tail(s))

\* the outcomes of random.shuffle on the list s
Shuffles(s) ==
  LET n == Len(s)
  IN  {[k \in 1..n |-> s[p[k]]] :
         p \in {q \in [1..n -> 1..n] : \A a, b \in 1..n : a # b => q[a] # q[b]}}

\* ------------------------------------------------------------ Python dicts
DictKeys(d)     == [k \in 1..Len(d) |-> d[k][1]]
KeySet(d)       == {d[k][1] : k \in 1..Len(d)}
DictHas(d, key) == key \in KeySet(d)
DictGet(d, key) == d[CHOOSE k \in 1..Len(d) : d[k][1] = key][2]
DictSet(d, key, val) ==
  IF DictHas(d, key)
  THEN [k \in 1..Len(d) |-> IF d[k][1] = key THEN <<key, val>> ELSE d[k]]
  ELSE Append(d, <<key, val>>)
DictDel(d, key) == SelectSeq(d, LAMBDA e : e[1] # key)
\* dict(zip(keys, [val] * len(keys))) for a list of distinct keys
DictOf(keys, val) == [k \in 1..Len(keys) |-> <<keys[k], val>>]

\* ------------------------------------------------------------ intersection
\* temp = set(ls1); [value for value in ls2 if value in temp]
intersection(a, b) == SelectSeq(b, LAMBDA value : value \in Range(a))

\* --------------------------------------------------------------- parameters
None == <<>>     \* "no coordinate": no relocation target / the agent is gone

\* <<height, width>> of the grids tried; the transposed grids behave alike
Dims == {d \in (1..MaxCells) \X (1..MaxCells) :
           d[1] <= d[2] /\ d[1] * d[2] <= MaxCells}
\* the ratios inside [0, 1] and all the ratios tried (also just outside [0, 1])
RatiosIn  == 0..RatioDen
RatiosAll == (0 - 1)..(RatioDen + 1)
\* mortality 0 and mortality 1.0.  A roll of 0.0 satisfies roll <= mortality
\* for every mortality >= 0, so mortality 0 already has both outcomes of line
\* 121 and a mortality strictly between 0 and 1 adds no behaviour
Mortalities == {0, RollDen}
\* the values random.random() returns: [0.0, 1.0)
Rolls == 0..(RollDen - 1)

\* ------------------------------------------------------------- VirusModel
\* the population state the rules of one iteration read and write
Pop(h, inf, e) == [h |-> h, i |-> inf, e |-> e]

\* the infected neighbours as they would be with range(x - 1, x + 1) and
\* range(y - 1, y + 1): the cells at x + 1 and y + 1 are missed
inf_neighbors_short(agent, infected) ==
  LET x == agent[1]
      y == agent[2]
      neighbors == ListRemove(Product(x - 1, x + 1, y - 1, y + 1), agent)
  IN  intersection(neighbors, DictKeys(infected))

\* contracted, lines 74-83: the neighbours of agent before the intersection
contracted_neighbors(agent) ==
  LET x == agent[1]
      y == agent[2]
  IN  ListRemove(Product(x - 1, x + 2, y - 1, y + 2), agent)

\* contracted, line 84: the infected neighbours of agent
inf_neighbors(agent, infected) ==
  intersection(contracted_neighbors(agent), DictKeys(infected))

\* contracted, lines 86-90: the agent becomes infected with day-count 0
contracted(agent, st) ==
  Pop(DictDel(st.h, agent), DictSet(st.i, agent, 0), st.e)

\* the test of line 96 as it would be with >= for >
recovers_at_cycle(agent, infected, cycle) == DictGet(infected, agent) >= cycle

\* recovered, line 96
recovers(agent, infected, cycle) == DictGet(infected, agent) > cycle

\* recovered, lines 97-98 and line 101
recovered(agent, st, cycle) ==
  IF recovers(agent, st.i, cycle)
  THEN Pop(DictSet(st.h, agent, 0), DictDel(st.i, agent), st.e)
  ELSE Pop(st.h, DictSet(st.i, agent, DictGet(st.i, agent) + 1), st.e)

\* the death of an agent as it would be if its cell were given back to
\* empty_spots
dies_vacates(agent, st) == Pop(st.h, DictDel(st.i, agent), Append(st.e, agent))

\* update, lines 122-123: the agent leaves the infected mapping and nothing
\* else changes
dies(agent, st) == Pop(st.h, DictDel(st.i, agent), st.e)

\* the neighbours of move_to_empty as they would be with line 171 in force:
\* the agent's cell is removed
move_to_empty_neighbors_without_self(agent, range) ==
  LET x == agent[1]
      y == agent[2]
  IN  ListRemove(Product(x - range, x + (range + 1), y - range, y + (range + 1)),
                 agent)

\* move_to_empty, lines 164-170: the neighbours of agent before the
\* intersection (line 171 is commented out: the agent's cell is not removed)
move_to_empty_neighbors(agent, range) ==
  LET x == agent[1]
      y == agent[2]
  IN  Product(x - range, x + (range + 1), y - range, y + (range + 1))

\* the candidates of move_to_empty as they would be without the intersection
\* of line 174: every cell of the neighbourhood
vacant_neighbors_unfiltered(agent, empty, range) ==
  move_to_empty_neighbors(agent, range)

\* the vacant cells as they would be with a neighbourhood of radius 1
\* whatever max_range is
vacant_neighbors_adjacent(agent, empty, range) ==
  intersection(move_to_empty_neighbors(agent, 1), empty)

\* move_to_empty, line 174: the vacant cells within max_range
vacant_neighbors(agent, empty, range) ==
  intersection(move_to_empty_neighbors(agent, range), empty)

\* the outcomes of lines 177-180: a random.choice of the candidates, or None
\* (the early return)
new_spots(agent, empty, range) ==
  LET neighbors == vacant_neighbors(agent, empty, range)
  IN  IF Len(neighbors) > 0 THEN Range(neighbors) ELSE {None}

\* move_to_empty as it would be without line 188: the chosen spot stays in
\* empty_spots
move_to_empty_keeps_spot(agent, inf, new_spot, st) ==
  IF new_spot = None
  THEN st
  ELSE LET e2 == Append(st.e, agent)
       IN  IF ~inf
           THEN Pop(DictDel(DictSet(st.h, new_spot, 0), agent), st.i, e2)
           ELSE Pop(st.h,
                    DictDel(DictSet(st.i, new_spot, DictGet(st.i, agent)), agent),
                    e2)

\* move_to_empty, lines 181-189, for the chosen new_spot
move_to_empty(agent, inf, new_spot, st) ==
  IF new_spot = None
  THEN st
  ELSE LET e2 == Append(ListRemove(st.e, new_spot), agent)
       IN  IF ~inf
           THEN Pop(DictDel(DictSet(st.h, new_spot, 0), agent), st.i, e2)
           ELSE Pop(st.h,
                    DictDel(DictSet(st.i, new_spot, DictGet(st.i, agent)), agent),
                    e2)

\* what happened to one agent of the snapshot: kind is "died", "recovered",
\* "ill" (still infected), "contracted" or "well"; to is where the agent is
\* afterwards (None for a dead agent); seen are the infected agents in the
\* Moore neighbourhood of a healthy agent at the moment it is processed
Event(agent, kind, to, seen) ==
  [agent |-> agent, kind |-> kind, to |-> to, seen |-> seen]

Landed(agent, new_spot) == IF new_spot = None THEN agent ELSE new_spot

\* cell b is within distance range of cell a
Within(a, b, range) ==
  /\ b[1] - a[1] \in (0 - range)..range
  /\ b[2] - a[2] \in (0 - range)..range

\* the keys of the mapping that are Moore neighbours (radius 1) of agent
Near(agent, mapping) ==
  {n \in KeySet(mapping) : n # agent /\ Within(agent, n, 1)}

NoSchelling ==
  /\ tolerance = 0 /\ num_races = 1
  /\ agents = <<>> /\ empty_houses = <<>> /\ changes_per_iter = <<>>
  /\ old_agents = <<>> /\ n_changes = 0

NoVirus ==
  /\ mortality = 0 /\ cycle_time = 0 /\ ratio_infected = 0 /\ max_range = 1
  /\ infected_agents = <<>> /\ healthy_agents = <<>> /\ empty_spots = <<>>
  /\ infected_population = <<>> /\ healthy_population = <<>>
  /\ deaths_per_iter = <<>>
  /\ old_h_agents = <<>> /\ old_i_agents = <<>> /\ n_deaths = 0

NoList == ls1 = <<>> /\ ls2 = <<>> /\ ls3 = <<>>

\* VirusModel.__init__, lines 16-35, for the parameters of the driver
VirusModel_init(ratios) ==
  /\ self = "VirusModel" /\ pc = "init" /\ err = "none"
  /\ \E d \in Dims : height = d[1] /\ width = d[2]
  /\ ratio_empty \in ratios
  /\ ratio_infected \in RatiosIn
  /\ mortality \in Mortalities
  /\ cycle_time \in 0..MaxCycle
  /\ num_iter \in 0..MaxIter
  /\ max_range \in 1..MaxRange
  /\ infected_agents = <<>> /\ healthy_agents = <<>>
  /\ infected_population = <<>> /\ healthy_population = <<>>
  /\ deaths_per_iter = <<>>
  \* attributes that do not exist yet
  /\ empty_spots = <<>> /\ old_h_agents = <<>> /\ old_i_agents = <<>>
  /\ n_deaths = 0 /\ n_empty = 0 /\ i = 0 /\ idx = 0 /\ hist = <<>>
  /\ NoSchelling /\ NoList

\* VirusModel.populate, lines 37-63
VirusModel_populate ==
  /\ self = "VirusModel" /\ pc = "init"
  /\ \E grid \in Shuffles(Product(0, height, 0, width)) :
       LET n        == PyInt(ratio_empty * Len(grid), RatioDen)
           inhabited == SliceFrom(grid, n)
           n_infected == PyInt(ratio_infected * Len(inhabited), RatioDen)
           healthy  == SliceFrom(inhabited, n_infected)
           infected == SliceTo(inhabited, n_infected)
       IN  /\ n_empty' = n
           /\ empty_spots' = SliceTo(grid, n)
           /\ healthy_agents' = healthy_agents \o DictOf(healthy, 0)
           /\ infected_agents' = infected_agents \o DictOf(infected, 0)
  /\ pc' = "populated"
  /\ UNCHANGED <<self, err, params, infected_population, healthy_population,
                 deaths_per_iter, old_h_agents, old_i_agents, n_deaths,
                 i, idx, schVars, listVars, hist>>

\* the start of update as it would be without lines 110-111: the initial
\* population is not recorded
VirusModel_update_no_initial ==
  /\ self = "VirusModel" /\ pc = "populated"
  /\ i' = 0
  /\ pc' = "for_i"
  /\ UNCHANGED <<self, err, params, n_empty, virusVars, idx, schVars, listVars,
                 hist>>

\* update, lines 110-111 (plot is False)
VirusModel_update ==
  /\ self = "VirusModel" /\ pc = "populated"
  /\ infected_population' = Append(infected_population, Len(infected_agents))
  /\ healthy_population' = Append(healthy_population, Len(healthy_agents))
  /\ i' = 0
  /\ pc' = "for_i"
  /\ UNCHANGED <<self, err, params, n_empty, infected_agents, healthy_agents,
                 empty_spots, deaths_per_iter, old_h_agents, old_i_agents,
                 n_deaths, idx, schVars, listVars, hist>>

\* the start of an iteration as it would be if the snapshots of lines
\* 116-117 were made in the first iteration only
VirusModel_iteration_stale ==
  /\ self = "VirusModel" /\ pc = "for_i" /\ i < num_iter
  /\ n_deaths' = 0
  /\ old_h_agents' = IF i = 0 THEN healthy_agents ELSE old_h_agents
  /\ old_i_agents' = IF i = 0 THEN infected_agents ELSE old_i_agents
  /\ idx' = 1
  /\ hist' = <<>>
  /\ pc' = "for_infected"
  /\ UNCHANGED <<self, err, params, n_empty, infected_agents, healthy_agents,
                 empty_spots, infected_population, healthy_population,
                 deaths_per_iter, i, schVars, listVars>>

\* the start of an iteration as it would be with range(num_iter + 1) in
\* line 113
VirusModel_iteration_one_more ==
  /\ self = "VirusModel" /\ pc = "for_i" /\ i <= num_iter
  /\ n_deaths' = 0
  /\ old_h_agents' = healthy_agents
  /\ old_i_agents' = infected_agents
  /\ idx' = 1
  /\ hist' = <<>>
  /\ pc' = "for_infected"
  /\ UNCHANGED <<self, err, params, n_empty, infected_agents, healthy_agents,
                 empty_spots, infected_population, healthy_population,
                 deaths_per_iter, i, schVars, listVars>>

\* update, lines 113-117: the next iteration starts
VirusModel_iteration ==
  /\ self = "VirusModel" /\ pc = "for_i" /\ i < num_iter
  /\ n_deaths' = 0
  /\ old_h_agents' = healthy_agents
  /\ old_i_agents' = infected_agents
  /\ idx' = 1
  /\ hist' = <<>>
  /\ pc' = "for_infected"
  /\ UNCHANGED <<self, err, params, n_empty, infected_agents, healthy_agents,
                 empty_spots, infected_population, healthy_population,
                 deaths_per_iter, i, schVars, listVars>>

\* update, line 113: range(num_iter) is exhausted
VirusModel_exhausted ==
  /\ self = "VirusModel" /\ pc = "for_i" /\ i >= num_iter
  /\ pc' = "done"
  /\ UNCHANGED <<self, err, params, n_empty, virusVars, i, idx, schVars, listVars,
                 hist>>

SetPop(st) ==
  /\ healthy_agents' = st.h
  /\ infected_agents' = st.i
  /\ empty_spots' = st.e

StepFrame ==
  UNCHANGED <<self, pc, err, params, n_empty, infected_population,
              healthy_population, deaths_per_iter, old_h_agents, old_i_agents,
              i, schVars, listVars>>

\* update, lines 119-129: one agent of the infected snapshot
VirusModel_infected_agent ==
  /\ pc = "for_infected" /\ idx <= Len(old_i_agents)
  /\ LET agent == DictKeys(old_i_agents)[idx]
         st0   == Pop(healthy_agents, infected_agents, empty_spots)
     IN  \E roll \in Rolls :
           IF roll <= mortality
           THEN /\ SetPop(dies(agent, st0))
                /\ n_deaths' = n_deaths + 1
                /\ hist' = Append(hist, Event(agent, "died", None, {}))
           ELSE LET well == recovers(agent, st0.i, cycle_time)
                    st1  == recovered(agent, st0, cycle_time)
                IN  \E new_spot \in new_spots(agent, st1.e, max_range) :
                      /\ SetPop(move_to_empty(agent, ~well, new_spot, st1))
                      /\ n_deaths' = n_deaths
                      /\ hist' = Append(hist,
                            Event(agent, IF well THEN "recovered" ELSE "ill",
                                  Landed(agent, new_spot), {}))
  /\ idx' = idx + 1
  /\ StepFrame

\* update, line 119 -> line 131: the infected snapshot is exhausted
VirusModel_infected_done ==
  /\ pc = "for_infected" /\ idx > Len(old_i_agents)
  /\ pc' = "for_healthy"
  /\ idx' = 1
  /\ UNCHANGED <<self, err, params, n_empty, virusVars, i, schVars, listVars, hist>>

\* one agent of the healthy snapshot as it would be if contracted read the
\* infected snapshot old_i_agents in the place of infected_agents
VirusModel_healthy_agent_snapshot ==
  /\ pc = "for_healthy" /\ idx <= Len(old_h_agents)
  /\ LET agent == DictKeys(old_h_agents)[idx]
         st0   == Pop(healthy_agents, infected_agents, empty_spots)
         seen  == inf_neighbors(agent, old_i_agents)
         sick  == Len(seen) > 0
         st1   == IF sick THEN contracted(agent, st0) ELSE st0
     IN  \E new_spot \in new_spots(agent, st1.e, max_range) :
           /\ SetPop(move_to_empty(agent, sick, new_spot, st1))
           /\ hist' = Append(hist,
                 Event(agent, IF sick THEN "contracted" ELSE "well",
                       Landed(agent, new_spot), Near(agent, st0.i)))
  /\ idx' = idx + 1
  /\ n_deaths' = n_deaths
  /\ StepFrame

\* update, lines 131-138: one agent of the healthy snapshot
VirusModel_healthy_agent ==
  /\ pc = "for_healthy" /\ idx <= Len(old_h_agents)
  /\ LET agent == DictKeys(old_h_agents)[idx]
         st0   == Pop(healthy_agents, infected_agents, empty_spots)
         seen  == inf_neighbors(agent, st0.i)
         sick  == Len(seen) > 0
         st1   == IF sick THEN contracted(agent, st0) ELSE st0
     IN  \E new_spot \in new_spots(agent, st1.e, max_range) :
           /\ SetPop(move_to_empty(agent, sick, new_spot, st1))
           /\ hist' = Append(hist,
                 Event(agent, IF sick THEN "contracted" ELSE "well",
                       Landed(agent, new_spot), Near(agent, st0.i)))
  /\ idx' = idx + 1
  /\ n_deaths' = n_deaths
  /\ StepFrame

\* the end of an iteration as it would be without lines 151-154: the loop
\* goes on although no agent is infected
VirusModel_iteration_end_no_break ==
  /\ pc = "for_healthy" /\ idx > Len(old_h_agents)
  /\ healthy_population' = Append(healthy_population, Len(healthy_agents))
  /\ infected_population' = Append(infected_population, Len(infected_agents))
  /\ deaths_per_iter' = Append(deaths_per_iter, n_deaths)
  /\ pc' = "for_i" /\ i' = i + 1
  /\ UNCHANGED <<self, err, params, n_empty, infected_agents, healthy_agents,
                 empty_spots, old_h_agents, old_i_agents, n_deaths, idx,
                 schVars, listVars, hist>>

\* update, lines 140-154: the metrics of the iteration and the test that
\* ends the loop
VirusModel_iteration_end ==
  /\ pc = "for_healthy" /\ idx > Len(old_h_agents)
  /\ healthy_population' = Append(healthy_population, Len(healthy_agents))
  /\ infected_population' = Append(infected_population, Len(infected_agents))
  /\ deaths_per_iter' = Append(deaths_per_iter, n_deaths)
  /\ IF Len(infected_agents) = 0
     THEN pc' = "done" /\ i' = i
     ELSE pc' = "for_i" /\ i' = i + 1
  /\ UNCHANGED <<self, err, params, n_empty, infected_agents, healthy_agents,
                 empty_spots, old_h_agents, old_i_agents, n_deaths, idx,
                 schVars, listVars, hist>>

InitVirus == VirusModel_init(RatiosIn)

NextVirus ==
  \/ VirusModel_populate
  \/ VirusModel_update
  \/ VirusModel_iteration
  \/ VirusModel_exhausted
  \/ VirusModel_infected_agent
  \/ VirusModel_infected_done
  \/ VirusModel_healthy_agent
  \/ VirusModel_iteration_end

SpecVirus == InitVirus /\ [][NextVirus]_vars

\* -------------------------------------------------------------- Schelling
\* Schelling.__init__, lines 16-26, for the parameters of the driver
Schelling_init(ratios) ==
  /\ self = "Schelling" /\ pc = "init" /\ err = "none"
  /\ \E d \in Dims : height = d[1] /\ width = d[2]
  /\ ratio_empty \in ratios
  /\ tolerance \in 0..TolDen
  /\ num_iter \in 0..MaxIter
  /\ num_races \in 1..MaxRaces
  /\ empty_houses = <<>> /\ agents = <<>> /\ changes_per_iter = <<>>
  \* attributes and locals that do not exist yet
  /\ old_agents = <<>> /\ n_changes = 0
  /\ n_empty = 0 /\ i = 0 /\ idx = 0 /\ hist = <<>>
  /\ NoVirus /\ NoList

\* populate, lines 51-58: the agents of races 1..num_races, race r on every
\* num_races-th inhabited house from the r-th on
RECURSIVE agents_by_race(_, _, _)
agents_by_race(inhabited, races, r) ==
  IF r > races
  THEN <<>>
  ELSE DictOf(SliceStep(inhabited, r - 1, races), r)
         \o agents_by_race(inhabited, races, r + 1)

\* Schelling.populate, lines 28-58
Schelling_populate ==
  /\ self = "Schelling" /\ pc = "init"
  /\ \E all_houses \in Shuffles(Product(0, width, 0, height)) :
       LET n == PyInt(ratio_empty * Len(all_houses), RatioDen)
           inhabited == SliceFrom(all_houses, n)
       IN  /\ n_empty' = n
           /\ empty_houses' = SliceTo(all_houses, n)
           /\ agents' = agents \o agents_by_race(inhabited, num_races, 1)
  /\ pc' = "populated"
  /\ UNCHANGED <<self, err, params, virusVars, i, idx, changes_per_iter, old_agents,
                 n_changes, listVars, hist>>

\* is_unsatisfied as it would be with <= for < in line 103
is_unsatisfied_or_equal(x, y, population, tol) ==
  LET race == DictGet(population, <<x, y>>)
      neighbors ==
        intersection(ListRemove(Product(x - 1, x + 2, y - 1, y + 2), <<x, y>>),
                     DictKeys(population))
      num_similar ==
        Cardinality({k \in 1..Len(neighbors) :
                       DictGet(population, neighbors[k]) = race})
      num_different == Len(neighbors) - num_similar
  IN  IF (num_different + num_similar) = 0
      THEN FALSE
      ELSE num_similar * TolDen <= tol * (num_similar + num_different)

\* is_unsatisfied, lines 85-86: the neighbours of (x, y) before the
\* intersection
is_unsatisfied_neighbors(x, y) ==
  ListRemove(Product(x - 1, x + 2, y - 1, y + 2), <<x, y>>)

\* is_unsatisfied, lines 76-103; tolerance is tol / TolDen
is_unsatisfied(x, y, population, tol) ==
  LET race == DictGet(population, <<x, y>>)
      neighbors ==
        intersection(is_unsatisfied_neighbors(x, y), DictKeys(population))
      num_similar ==
        Cardinality({k \in 1..Len(neighbors) :
                       DictGet(population, neighbors[k]) = race})
      num_different == Len(neighbors) - num_similar
  IN  IF (num_different + num_similar) = 0
      THEN FALSE
      ELSE num_similar * TolDen < tol * (num_similar + num_different)

\* Schelling.move_to_empty as it would be without line 141: the agent is
\* copied to the new house and its old entry stays
Schelling_move_to_empty_keeps_old(key, new_house, st) ==
  LET agent_race == DictGet(st[1], key)
  IN  << DictSet(st[1], new_house, agent_race),
         Append(ListRemove(st[2], new_house), key) >>

\* Schelling.move_to_empty, lines 133-145, for the chosen new_house; st is
\* <<agents, empty_houses>>
Schelling_move_to_empty(key, new_house, st) ==
  LET agent_race == DictGet(st[1], key)
  IN  << DictDel(DictSet(st[1], new_house, agent_race), key),
         Append(ListRemove(st[2], new_house), key) >>

\* update, line 112 is reached
Schelling_update ==
  /\ self = "Schelling" /\ pc = "populated"
  /\ i' = 0
  /\ pc' = "for_i"
  /\ UNCHANGED <<self, err, params, n_empty, virusVars, idx, schVars, listVars, hist>>

\* update, lines 112-115: the next iteration starts
Schelling_iteration ==
  /\ self = "Schelling" /\ pc = "for_i" /\ i < num_iter
  /\ old_agents' = agents
  /\ n_changes' = 0
  /\ idx' = 1
  /\ hist' = <<>>
  /\ pc' = "for_agent"
  /\ UNCHANGED <<self, err, params, n_empty, virusVars, i, agents, empty_houses,
                 changes_per_iter, listVars>>

\* update, line 112: range(num_iter) is exhausted
Schelling_exhausted ==
  /\ self = "Schelling" /\ pc = "for_i" /\ i >= num_iter
  /\ pc' = "done"
  /\ UNCHANGED <<self, err, params, n_empty, virusVars, i, idx, schVars, listVars,
                 hist>>

\* one agent of the snapshot as it would be if is_unsatisfied read the
\* snapshot old_agents in the place of agents
Schelling_agent_snapshot ==
  /\ pc = "for_agent" /\ idx <= Len(old_agents)
  /\ LET agent == DictKeys(old_agents)[idx]
     IN  IF is_unsatisfied(agent[1], agent[2], old_agents, tolerance)
         THEN IF Len(empty_houses) = 0
              THEN /\ err' = "IndexError"
                   /\ pc' = "raised"
                   /\ UNCHANGED <<agents, empty_houses, n_changes, idx, hist>>
              ELSE \E new_house \in Range(empty_houses) :
                     LET st == Schelling_move_to_empty(
                                 agent, new_house, <<agents, empty_houses>>)
                     IN  /\ agents' = st[1]
                         /\ empty_houses' = st[2]
                         /\ n_changes' = n_changes + 1
                         /\ idx' = idx + 1
                         /\ hist' = Append(hist,
                                      Event(agent, "moved", new_house, {}))
                         /\ UNCHANGED <<pc, err>>
         ELSE /\ idx' = idx + 1
              /\ hist' = Append(hist, Event(agent, "stayed", agent, {}))
              /\ UNCHANGED <<pc, err, agents, empty_houses, n_changes>>
  /\ UNCHANGED <<self, params, n_empty, virusVars, i, changes_per_iter, old_agents,
                 listVars>>

\* update, lines 116-122: one agent of the snapshot.  random.choice of an
\* empty list (line 137) raises IndexError, which ends update
Schelling_agent ==
  /\ pc = "for_agent" /\ idx <= Len(old_agents)
  /\ LET agent == DictKeys(old_agents)[idx]
     IN  IF is_unsatisfied(agent[1], agent[2], agents, tolerance)
         THEN IF Len(empty_houses) = 0
              THEN /\ err' = "IndexError"
                   /\ pc' = "raised"
                   /\ UNCHANGED <<agents, empty_houses, n_changes, idx, hist>>
              ELSE \E new_house \in Range(empty_houses) :
                     LET st == Schelling_move_to_empty(
                                 agent, new_house, <<agents, empty_houses>>)
                     IN  /\ agents' = st[1]
                         /\ empty_houses' = st[2]
                         /\ n_changes' = n_changes + 1
                         /\ idx' = idx + 1
                         /\ hist' = Append(hist,
                                      Event(agent, "moved", new_house, {}))
                         /\ UNCHANGED <<pc, err>>
         ELSE /\ idx' = idx + 1
              /\ hist' = Append(hist, Event(agent, "stayed", agent, {}))
              /\ UNCHANGED <<pc, err, agents, empty_houses, n_changes>>
  /\ UNCHANGED <<self, params, n_empty, virusVars, i, changes_per_iter, old_agents,
                 listVars>>

\* update, lines 123-126
Schelling_iteration_end ==
  /\ pc = "for_agent" /\ idx > Len(old_agents)
  /\ changes_per_iter' = Append(changes_per_iter, n_changes)
  /\ IF n_changes = 0
     THEN pc' = "done" /\ i' = i
     ELSE pc' = "for_i" /\ i' = i + 1
  /\ UNCHANGED <<self, err, params, n_empty, virusVars, idx, agents, empty_houses,
                 old_agents, n_changes, listVars, hist>>

InitSchelling == Schelling_init(RatiosIn)

NextSchelling ==
  \/ Schelling_populate
  \/ Schelling_update
  \/ Schelling_iteration
  \/ Schelling_exhausted
  \/ Schelling_agent
  \/ Schelling_iteration_end

SpecSchelling == InitSchelling /\ [][NextSchelling]_vars

\* ----------------------------------------------------------- populate alone
\* populate of either model, also for empty-ratios just outside [0, 1]
InitPopulate == VirusModel_init(RatiosAll) \/ Schelling_init(RatiosAll)

NextPopulate ==
  \/ VirusModel_populate
  \/ Schelling_populate

SpecPopulate == InitPopulate /\ [][NextPopulate]_vars

\* ---------------------------------------------------------- the two models
\* a run of either model: populate, then update
InitModels == InitVirus \/ InitSchelling

NextModels ==
  \/ NextVirus
  \/ NextSchelling

SpecModels == InitModels /\ [][NextModels]_vars

\* -------------------------------------------------------- intersection alone
\* the lists of at most MaxLen elements of 0..MaxElem
Lists == UNION {[1..n -> 0..MaxElem] : n \in 0..MaxLen}

InitIntersection ==
  /\ self = "intersection" /\ pc = "call" /\ err = "none"
  /\ ls1 \in Lists /\ ls2 \in Lists /\ ls3 = <<>>
  /\ height = 0 /\ width = 0 /\ ratio_empty = 0 /\ num_iter = 0
  /\ n_empty = 0 /\ i = 0 /\ idx = 0 /\ hist = <<>>
  /\ NoVirus /\ NoSchelling

\* ls3 = intersection(ls1, ls2), list_funcs.py lines 23-26
intersection_call ==
  /\ self = "intersection" /\ pc = "call"
  /\ ls3' = intersection(ls1, ls2)
  /\ pc' = "returned"
  /\ UNCHANGED <<self, err, params, n_empty, virusVars, i, idx, schVars, ls1,
                 ls2, hist>>

NextIntersection == intersection_call

SpecIntersection == InitIntersection /\ [][NextIntersection]_vars

\* ------------------------------------------------------------------ claims
\* update is between two iterations, before the first or after the last
AtBoundary == pc \in {"populated", "for_i", "done"}

\* some agent processed in the current iteration has relocated
Relocated == \E k \in 1..Len(hist) : hist[k].to \notin {None, hist[k].agent}

\* C1: infection model, after populate and after every completed iteration:
\* the keys of healthy_agents, the keys of infected_agents and empty_spots are
\* pairwise disjoint, and their sizes add up to width * height minus the
\* deaths recorded so far.
C1_Partition ==
  (self = "VirusModel" /\ AtBoundary) =>
    /\ KeySet(healthy_agents) \cap KeySet(infected_agents) = {}
    /\ KeySet(healthy_agents) \cap Range(empty_spots) = {}
    /\ KeySet(infected_agents) \cap Range(empty_spots) = {}
    /\ Len(healthy_agents) + Len(infected_agents) + Len(empty_spots)
         = width * height - SumSeq(deaths_per_iter)

\* an iteration with a death and a relocation has completed
C1_Witness ==
  /\ self = "VirusModel" /\ pc = "for_i"
  /\ SumSeq(deaths_per_iter) > 0
  /\ Relocated

\* the number of agents of race r
RaceCount(population, r) ==
  Cardinality({k \in 1..Len(population) : population[k][2] = r})

\* C2: segregation model, in every state after populate: the keys of agents
\* and empty_houses are disjoint and together are exactly the cells of the
\* grid, every race id is in 1..num_races; and no step of update changes the
\* size of agents, the size of empty_houses or the number of agents of a race.
C2_Population ==
  /\ []((self = "Schelling" /\ pc # "init") =>
          /\ KeySet(agents) \cap Range(empty_houses) = {}
          /\ KeySet(agents) \cup Range(empty_houses)
               = Range(Product(0, width, 0, height))
          /\ Len(agents) + Len(empty_houses) = width * height
          /\ \A k \in 1..Len(agents) : agents[k][2] \in 1..num_races)
  /\ [][(self = "Schelling" /\ pc # "init") =>
          /\ Len(agents') = Len(agents)
          /\ Len(empty_houses') = Len(empty_houses)
          /\ \A r \in 1..num_races :
               RaceCount(agents', r) = RaceCount(agents, r)]_vars

\* an agent has relocated in a population of two races
C2_Witness ==
  /\ self = "Schelling" /\ Relocated
  /\ RaceCount(agents, 1) > 0 /\ RaceCount(agents, 2) > 0

\* no element occurs twice in the list s
NoDuplicates(s) == \A a, b \in 1..Len(s) : s[a] = s[b] => a = b

\* C3: intersection(ls1, ls2) returns exactly the elements of ls2 that are
\* members of ls1, in the order of ls2, none of them more than once; it
\* returns [] when ls1 or ls2 is [].
C3_Intersection ==
  (self = "intersection" /\ pc = "returned") =>
    /\ Range(ls3) = Range(ls1) \cap Range(ls2)
    /\ \E f \in [1..Len(ls3) -> 1..Len(ls2)] :
         /\ \A a, b \in 1..Len(ls3) : a < b => f[a] < f[b]
         /\ \A a \in 1..Len(ls3) : ls2[f[a]] = ls3[a]
    /\ NoDuplicates(ls3)
    /\ (ls1 = <<>> => ls3 = <<>>)
    /\ (ls2 = <<>> => ls3 = <<>>)

\* the step is the death of the agent the infected loop is at (lines 121-123)
Death ==
  /\ self = "VirusModel" /\ pc = "for_infected" /\ idx <= Len(old_i_agents)
  /\ n_deaths' = n_deaths + 1

\* the cells held by an agent or listed as empty
Cells == KeySet(healthy_agents) \cup KeySet(infected_agents) \cup Range(empty_spots)
Cells_next ==
  KeySet(healthy_agents') \cup KeySet(infected_agents') \cup Range(empty_spots')

\* C4 as stated: when an infected agent dies its coordinate is added to
\* empty_spots.
C4_DeadCellVacated ==
  [][Death => DictKeys(old_i_agents)[idx] \in Range(empty_spots')]_vars

\* C4 as amended: when an infected agent dies its coordinate leaves
\* infected_agents and is not added to empty_spots, which the death leaves
\* unchanged; the cell is then in no mapping and not in empty_spots, and no
\* later step of update brings a cell back (it is never a relocation target).
C4_DeadCellLost ==
  [][/\ Death =>
          /\ empty_spots' = empty_spots
          /\ DictKeys(old_i_agents)[idx] \notin Cells_next
     /\ (self = "VirusModel" /\ pc # "init") => Cells_next \subseteq Cells]_vars

\* an agent has died and an agent processed later had the dead agent's cell
\* within max_range
C4_Witness ==
  /\ self = "VirusModel"
  /\ \E k, j \in 1..Len(hist) :
       /\ k < j
       /\ hist[k].kind = "died"
       /\ hist[j].kind # "died"
       /\ Within(hist[j].agent, hist[k].agent, max_range)
       /\ hist[j].to = hist[j].agent

\* the first iteration of update has completed and no other has started,
\* with mortality = 0, cycle_time = 0 and max_range = 1
C5_Scenario ==
  /\ self = "VirusModel" /\ pc \in {"for_i", "done"}
  /\ Len(deaths_per_iter) = 1
  /\ mortality = 0 /\ cycle_time = 0 /\ max_range = 1

\* the agent of this event is in infected_agents with day-count 0
NewlyInfected(e) ==
  /\ DictHas(infected_agents, e.to)
  /\ DictGet(infected_agents, e.to) = 0

\* C5 as stated: after the iteration every agent that was healthy at its
\* start and had an infected agent in its Moore neighbourhood at its start is
\* in infected_agents with day-count 0.  (Stated for the iterations in which
\* no agent died: with mortality 0 an agent dies only on a roll of exactly
\* 0.0.)
C5_ExposedAtStart ==
  (C5_Scenario /\ deaths_per_iter = <<0>>) =>
    \A k \in 1..Len(hist) :
      (hist[k].kind \in {"contracted", "well"}
         /\ Near(hist[k].agent, old_i_agents) # {})
        => NewlyInfected(hist[k])

\* C5 as amended: after the iteration every agent that was healthy at its
\* start and had an infected agent in its Moore neighbourhood at the moment
\* it was processed is in infected_agents with day-count 0, at its original
\* or its relocated coordinate.
C5_ExposedWhenProcessed ==
  C5_Scenario =>
    \A k \in 1..Len(hist) :
      (hist[k].kind \in {"contracted", "well"} /\ hist[k].seen # {})
        => NewlyInfected(hist[k])

\* a healthy agent was exposed when processed and relocated, and no agent
\* died
C5_Witness ==
  /\ C5_Scenario /\ deaths_per_iter = <<0>>
  /\ \E k \in 1..Len(hist) :
       hist[k].seen # {} /\ hist[k].to # hist[k].agent

\* C6: infection model with mortality = 1.0 and num_iter >= 1: in the first
\* iteration every agent of the infected snapshot dies before any healthy
\* agent is tested, so no healthy agent is infected; when update has returned
\* exactly one iteration was recorded, its death count is the number of
\* agents infected at its start, infected_agents is empty and the healthy
\* count is unchanged; no second iteration is started.
C6_Extinction ==
  (self = "VirusModel" /\ mortality = RollDen /\ num_iter >= 1) =>
    /\ pc = "for_healthy" =>
         infected_agents = <<>> /\ n_deaths = Len(old_i_agents)
    /\ \A k \in 1..Len(hist) : hist[k].kind \in {"died", "well"}
    /\ Len(deaths_per_iter) <= 1
    /\ Len(deaths_per_iter) = 1 => pc = "done"
    /\ pc = "done" =>
         /\ infected_agents = <<>>
         /\ deaths_per_iter = <<infected_population[1]>>
         /\ infected_population = <<infected_population[1], 0>>
         /\ healthy_population = <<healthy_population[1], healthy_population[1]>>
         /\ Len(healthy_agents) = healthy_population[1]

\* update has returned after one of two allowed iterations, in which an agent
\* died next to a healthy agent
C6_Witness ==
  /\ self = "VirusModel" /\ mortality = RollDen /\ num_iter = 2 /\ pc = "done"
  /\ \E k, j \in 1..Len(hist) :
       /\ hist[k].kind = "died" /\ hist[j].kind = "well"
       /\ Within(hist[j].agent, hist[k].agent, 1)

\* C7: segregation model with tolerance = 0 and num_iter >= 1: no agent is
\* unsatisfied and none relocates, no step of update changes agents or
\* empty_houses, no error is raised, and update returns after one iteration
\* with changes_per_iter = [0].
C7_ToleranceZero ==
  /\ []((self = "Schelling" /\ tolerance = 0 /\ num_iter >= 1) =>
          /\ \A a \in KeySet(agents) :
               ~is_unsatisfied(a[1], a[2], agents, tolerance)
          /\ \A k \in 1..Len(hist) : hist[k].kind = "stayed"
          /\ n_changes = 0 /\ err = "none"
          /\ changes_per_iter \in {<<>>, <<0>>}
          /\ changes_per_iter = <<0>> <=> pc = "done")
  /\ [][(self = "Schelling" /\ tolerance = 0 /\ pc # "init") =>
          agents' = agents /\ empty_houses' = empty_houses]_vars

\* update has returned after one of two allowed iterations although two
\* neighbours are of different races and a house is empty
C7_Witness ==
  /\ self = "Schelling" /\ tolerance = 0 /\ num_iter = 2 /\ pc = "done"
  /\ Len(empty_houses) > 0
  /\ \E a, b \in 1..Len(agents) :
       /\ agents[a][2] # agents[b][2]
       /\ Within(agents[a][1], agents[b][1], 1)

\* update is inside an iteration
InIteration == pc \in {"for_infected", "for_healthy"}

\* the last element of a non-empty list
Last(s) == s[Len(s)]

\* an upper bound on the steps of update still to come: every step of the
\* infection model lowers it and it is never negative
VirusRank ==
  LET per_iteration == 2 * width * height + 4
  IN  CASE pc = "init"         -> num_iter * per_iteration + 3
        [] pc = "populated"    -> num_iter * per_iteration + 2
        [] pc = "for_i"        -> (num_iter - i) * per_iteration + 1
        [] pc = "for_infected" ->
             (num_iter - i - 1) * per_iteration + 3 + Len(old_h_agents)
               + Len(old_i_agents) - (idx - 1)
        [] pc = "for_healthy"  ->
             (num_iter - i - 1) * per_iteration + 2 + Len(old_h_agents)
               - (idx - 1)
        [] OTHER               -> 0

\* C8 as stated, its last part: no iteration is executed while the infected
\* mapping is empty (the mapping is not empty when an iteration starts).
C8_NoIterationWhenEmpty ==
  (self = "VirusModel" /\ InIteration) => old_i_agents # <<>>

\* C8 as amended: update always terminates (every step lowers VirusRank,
\* which is never negative, and a step is possible until update has
\* returned); it runs at most num_iter iterations; it returns right after the
\* first iteration at whose end infected_agents is empty, or after num_iter
\* iterations, whichever comes first; and no iteration other than the first
\* is executed while the infected mapping is empty.
C8_Termination ==
  /\ [](self = "VirusModel" =>
          /\ VirusRank >= 0
          /\ pc # "done" => ENABLED NextVirus
          /\ Len(deaths_per_iter) <= num_iter
          /\ InIteration => (i < num_iter /\ Len(deaths_per_iter) = i)
          /\ \A k \in 2..Len(infected_population) :
               infected_population[k] = 0 =>
                 (k = Len(infected_population) /\ pc = "done")
          /\ pc = "done" =>
               \/ Len(deaths_per_iter) = num_iter
               \/ /\ Len(deaths_per_iter) >= 1
                  /\ Last(infected_population) = 0
                  /\ infected_agents = <<>>
          /\ (InIteration /\ i > 0) => old_i_agents # <<>>)
  /\ [][self = "VirusModel" => VirusRank' < VirusRank]_vars

\* update has returned before its budget was used, after an iteration that
\* started with an infected agent and ended with none
C8_Witness ==
  /\ self = "VirusModel" /\ pc = "done"
  /\ Len(deaths_per_iter) = 1 /\ num_iter = 2
  /\ old_i_agents # <<>> /\ infected_agents = <<>>

\* update of the segregation model has ended, by returning or by raising
SchellingEnded == pc \in {"done", "raised"}

\* every entry of changes_per_iter but the last is > 0, there are at most
\* num_iter entries
ChangesWellFormed ==
  /\ Len(changes_per_iter) <= num_iter
  /\ \A k \in 1..(Len(changes_per_iter) - 1) : changes_per_iter[k] > 0

\* C9: segregation model: update ends within num_iter iterations; every entry
\* of changes_per_iter except possibly the last is > 0, and when update has
\* ended with fewer than num_iter entries written, the last entry is 0 (it
\* stopped right after the first iteration that recorded zero relocations).
C9_StopsAtZeroChanges ==
  self = "Schelling" =>
    /\ ChangesWellFormed
    /\ (SchellingEnded /\ Len(changes_per_iter) < num_iter) =>
         (changes_per_iter # <<>> /\ Last(changes_per_iter) = 0)

\* what holds of C9 on the code: the same, for the calls of update that
\* return
C9_StopsAtZeroChangesIfReturned ==
  self = "Schelling" =>
    /\ ChangesWellFormed
    /\ (pc = "done" /\ Len(changes_per_iter) < num_iter) =>
         (changes_per_iter # <<>> /\ Last(changes_per_iter) = 0)

\* C10: populate with an empty-ratio outside [0, 1] fails with a
\* ConfigurationError and creates no population mapping and no empty-set; with
\* a ratio inside [0, 1] it raises no error.
C10_RatioChecked ==
  pc = "populated" =>
    IF ratio_empty \in RatiosIn
    THEN err = "none"
    ELSE /\ err = "ConfigurationError"
         /\ healthy_agents = <<>> /\ infected_agents = <<>>
         /\ empty_spots = <<>>
         /\ agents = <<>> /\ empty_houses = <<>>

\* the cells of the grid populate creates
GridCells == {c \in (0..(MaxCells + 1)) \X (0..(MaxCells + 1)) :
                IF self = "Schelling"
                THEN c[1] < width /\ c[2] < height
                ELSE c[1] < height /\ c[2] < width}

\* the empty-set and the population of the model that runs
EmptySet  == IF self = "Schelling" THEN empty_houses ELSE empty_spots
Inhabited == KeySet(healthy_agents) \cup KeySet(infected_agents) \cup KeySet(agents)

\* n is int(num / RatioDen) for num >= 0
IsTruncated(n, num) == RatioDen * n <= num /\ num < RatioDen * (n + 1)

\* populate has run with ratio_empty in [0, 1]
Populated == pc = "populated" /\ ratio_empty \in RatiosIn

\* what populate makes of the grid: an empty-set and disjoint population
\* mappings that partition it, the infected mapping holding the truncated
\* share of the inhabited cells, the races sharing the inhabited cells in
\* sizes that differ by at most one
C11_Shares ==
  /\ NoDuplicates(EmptySet)
  /\ Range(EmptySet) \cap Inhabited = {}
  /\ Range(EmptySet) \cup Inhabited = GridCells
  /\ KeySet(healthy_agents) \cap KeySet(infected_agents) = {}
  /\ Len(healthy_agents) + Len(infected_agents) + Len(agents)
       = Cardinality(Inhabited)
  /\ self = "VirusModel" =>
       /\ IsTruncated(Len(infected_agents),
                      ratio_infected * Cardinality(Inhabited))
       /\ \A k \in 1..Len(infected_agents) : infected_agents[k][2] = 0
       /\ \A k \in 1..Len(healthy_agents) : healthy_agents[k][2] = 0
  /\ self = "Schelling" =>
       /\ \A k \in 1..Len(agents) : agents[k][2] \in 1..num_races
       /\ \A r, q \in 1..num_races :
            RaceCount(agents, r) - RaceCount(agents, q) \in {0 - 1, 0, 1}

\* C11 as stated: populate with ratio_empty in [0, 1] produces an empty-set
\* and disjoint population mappings whose combined size equals
\* (1 - ratio_empty) * width * height exactly, the infected mapping holding
\* int(ratio_infected * inhabited) agents and the races differing in size by
\* at most one.
C11_PopulateExact ==
  Populated =>
    /\ C11_Shares
    /\ RatioDen * Cardinality(Inhabited)
         = (RatioDen - ratio_empty) * width * height

\* C11 as amended: the empty-set holds int(ratio_empty * width * height)
\* cells and the combined size of the population mappings is width * height
\* minus that, which is (1 - ratio_empty) * width * height rounded up; the
\* rest as stated.
C11_PopulateTruncated ==
  Populated =>
    /\ C11_Shares
    /\ IsTruncated(Len(EmptySet), ratio_empty * width * height)
    /\ Cardinality(Inhabited) = width * height - Len(EmptySet)

\* populate of the infection model has run on a grid of which ratio_empty is
\* not a whole number of cells, and has made agents of both kinds
C11_Witness ==
  /\ Populated /\ self = "VirusModel"
  /\ (ratio_empty * width * height) % RatioDen # 0
  /\ infected_agents # <<>> /\ healthy_agents # <<>>

\* update is in its loop over range(num_iter): i iterations have completed
InLoop == pc \in {"for_i", "for_infected", "for_healthy", "for_agent"}

\* the step completes an iteration
IterationEnds == pc \in {"for_healthy", "for_agent"} /\ pc' \in {"for_i", "done"}

\* the number of agents processed in the current iteration to which kind
\* happened
Count(kind) == Cardinality({k \in 1..Len(hist) : hist[k].kind = kind})

\* the step appends one entry to each series of the model that runs: the
\* counts at the end of the iteration
MetricsAppended ==
  IF self = "VirusModel"
  THEN /\ healthy_population' = Append(healthy_population, Len(healthy_agents))
       /\ infected_population' = Append(infected_population, Len(infected_agents))
       /\ deaths_per_iter' = Append(deaths_per_iter, Count("died"))
       /\ changes_per_iter' = changes_per_iter
  ELSE /\ changes_per_iter' = Append(changes_per_iter, Count("moved"))
       /\ UNCHANGED <<healthy_population, infected_population, deaths_per_iter>>

MetricsUnchanged ==
  UNCHANGED <<healthy_population, infected_population, deaths_per_iter,
              changes_per_iter>>

\* C12 as stated: every metrics series is append-only and receives exactly
\* one entry per completed iteration: when i iterations have completed,
\* healthy_population, infected_population and deaths_per_iter (infection
\* model) and changes_per_iter (segregation model) each hold exactly i
\* entries; the step that completes an iteration appends the counts at its
\* end and no other step changes a series.
C12_OneEntryPerIteration ==
  /\ []((self = "VirusModel" /\ InLoop) =>
          /\ Len(healthy_population) = i
          /\ Len(infected_population) = i
          /\ Len(deaths_per_iter) = i)
  /\ []((self = "Schelling" /\ InLoop) => Len(changes_per_iter) = i)
  /\ [][IF IterationEnds THEN MetricsAppended ELSE MetricsUnchanged]_vars

\* C12 as amended: deaths_per_iter and changes_per_iter hold exactly one
\* entry per completed iteration; healthy_population and infected_population
\* hold one entry more, the first being the count before the first iteration,
\* appended when update starts.  The step that completes an iteration appends
\* the counts at its end; no other step changes a series.
C12_OneEntryPerIterationAfterInitial ==
  /\ []((self = "VirusModel" /\ InLoop) =>
          /\ Len(healthy_population) = i + 1
          /\ Len(infected_population) = i + 1
          /\ Len(deaths_per_iter) = i)
  /\ []((self = "Schelling" /\ InLoop) => Len(changes_per_iter) = i)
  /\ []((self \in {"VirusModel", "Schelling"} /\ pc \in {"init", "populated"}) =>
          /\ healthy_population = <<>> /\ infected_population = <<>>
          /\ deaths_per_iter = <<>> /\ changes_per_iter = <<>>)
  /\ [][IF IterationEnds
        THEN MetricsAppended
        ELSE IF self = "VirusModel" /\ pc = "populated"
             THEN /\ healthy_population' = <<Len(healthy_agents)>>
                  /\ infected_population' = <<Len(infected_agents)>>
                  /\ UNCHANGED <<deaths_per_iter, changes_per_iter>>
             ELSE MetricsUnchanged]_vars

\* two iterations of the infection model have completed, with a death
C12_Witness ==
  /\ self = "VirusModel"
  /\ Len(deaths_per_iter) = 2 /\ Len(healthy_population) = 3
  /\ SumSeq(deaths_per_iter) > 0

\* the cells that hold an infected agent when the k-th agent of the
\* iteration is processed, from what happened to the agents before it: the
\* infected agents not processed yet and the agents that were left infected
InfectedBefore(k) ==
  {hist[j].to : j \in {j \in 1..(k - 1) : hist[j].kind \in {"ill", "contracted"}}}
    \cup {old_i_agents[j][1] : j \in k..Len(old_i_agents)}

\* C13: infection model, inside one iteration: the agents of the infected
\* snapshot are processed, in its order, before any agent of the healthy
\* snapshot, and a healthy agent becomes infected exactly if a cell of its
\* Moore neighbourhood holds an infected agent at the moment it is processed
\* (an agent left infected, or newly infected, earlier in the iteration, at
\* the cell it is at then; not an agent that died, recovered or moved away).
C13_LiveContraction ==
  (self = "VirusModel" /\ InIteration) =>
    /\ Len(hist) = IF pc = "for_infected"
                   THEN idx - 1
                   ELSE Len(old_i_agents) + idx - 1
    /\ KeySet(infected_agents) = InfectedBefore(Len(hist) + 1)
    /\ \A k \in 1..Len(hist) :
         IF k <= Len(old_i_agents)
         THEN /\ hist[k].agent = old_i_agents[k][1]
              /\ hist[k].kind \in {"died", "recovered", "ill"}
         ELSE /\ hist[k].agent = old_h_agents[k - Len(old_i_agents)][1]
              /\ hist[k].kind \in {"contracted", "well"}
              /\ hist[k].kind = "contracted" <=>
                   \E c \in InfectedBefore(k) :
                     c # hist[k].agent /\ Within(hist[k].agent, c, 1)

\* a healthy agent with no agent of the infected snapshot in its
\* neighbourhood was infected by an agent that became infected earlier in
\* the same iteration
C13_Witness ==
  /\ self = "VirusModel" /\ pc = "for_healthy"
  /\ \E k, j \in 1..Len(hist) :
       /\ j < k
       /\ hist[j].kind = "contracted" /\ hist[k].kind = "contracted"
       /\ Within(hist[k].agent, hist[j].to, 1)
       /\ Near(hist[k].agent, old_i_agents) = {}

\* the population of the segregation model when the k-th agent of the
\* iteration is processed, from what happened to the agents before it: an
\* agent processed earlier is where it went, the others are where the
\* snapshot has them
AgentsBefore(k) ==
  [j \in 1..Len(old_agents) |->
     << IF j < k /\ j <= Len(hist) THEN hist[j].to ELSE old_agents[j][1],
        old_agents[j][2] >>]

\* the k-th agent of the iteration relocated
Moved(k) == hist[k].kind = "moved"

\* C14 as stated: segregation model: within one iteration the decision of
\* every agent is computed against the snapshot taken at the beginning of
\* the iteration: an agent relocates exactly if it is unsatisfied in
\* old_agents.
C14_DecidedOnSnapshot ==
  (self = "Schelling" /\ pc = "for_agent") =>
    \A k \in 1..Len(hist) :
      Moved(k) <=>
        is_unsatisfied(hist[k].agent[1], hist[k].agent[2], old_agents, tolerance)

\* C14 as amended: the agents are taken from the snapshot, in its order, but
\* the decision of an agent is computed against the population as it is at
\* the moment the agent is processed, with the relocations of the agents
\* processed earlier in the iteration: an agent relocates exactly if it is
\* unsatisfied there.
C14_DecidedOnLive ==
  (self = "Schelling" /\ pc = "for_agent") =>
    /\ Len(hist) = idx - 1
    /\ {agents[j] : j \in 1..Len(agents)}
         = Range(AgentsBefore(Len(hist) + 1))
    /\ \A k \in 1..Len(hist) :
         /\ hist[k].agent = old_agents[k][1]
         /\ Moved(k) <=>
              is_unsatisfied(hist[k].agent[1], hist[k].agent[2],
                             AgentsBefore(k), tolerance)

\* an agent that was unsatisfied in the snapshot stayed in place, or one that
\* was satisfied in the snapshot relocated, after another agent had relocated
C14_Witness ==
  /\ self = "Schelling" /\ pc = "for_agent"
  /\ \E k, j \in 1..Len(hist) :
       /\ j < k /\ Moved(j)
       /\ Moved(k) #
            is_unsatisfied(hist[k].agent[1], hist[k].agent[2], old_agents,
                           tolerance)

\* the agent the inner loop is at
Current ==
  IF pc = "for_infected" THEN old_i_agents[idx][1] ELSE old_h_agents[idx][1]

\* the step processes an agent of the infection model that does not die: its
\* rule, then move_to_empty
MoveCall ==
  /\ self = "VirusModel" /\ InIteration
  /\ idx' = idx + 1 /\ n_deaths' = n_deaths

\* the entries of a mapping, and those of the agents other than agent
Entries(mapping) == {mapping[k] : k \in 1..Len(mapping)}
Others(mapping, agent) == {e \in Entries(mapping) : e[1] # agent}

\* the cells of empty_spots within max_range of agent
Candidates(agent) ==
  {c \in Range(empty_spots) : Within(agent, c, max_range)}

\* C15: infection model, move_to_empty: the candidate cells are the cells
\* within max_range of the agent that are in empty_spots, the agent's own
\* cell is never one; if there is a candidate the agent's entry is moved to
\* one of them within its own mapping (an infected agent with the day-count it
\* has, a healthy one with 0), its old cell is added to empty_spots and the
\* chosen cell is taken out, and every other agent's entry is unchanged; if
\* there is none the agent stays, empty_spots is unchanged and no error is
\* raised.
C15_Relocation ==
  [][MoveCall =>
       LET agent == Current
           e     == Last(hist')
           days  == IF e.kind = "ill"
                    THEN DictGet(infected_agents, agent) + 1
                    ELSE 0
       IN  /\ e.agent = agent
           /\ agent \notin Candidates(agent)
           /\ IF Candidates(agent) = {}
              THEN e.to = agent /\ empty_spots' = empty_spots
              ELSE /\ e.to \in Candidates(agent)
                   /\ Len(empty_spots') = Len(empty_spots)
                   /\ Range(empty_spots')
                        = (Range(empty_spots) \ {e.to}) \cup {agent}
           /\ IF e.kind \in {"recovered", "well"}
              THEN /\ Entries(healthy_agents')
                        = Others(healthy_agents, agent) \cup {<<e.to, 0>>}
                   /\ Entries(infected_agents') = Others(infected_agents, agent)
              ELSE /\ Entries(infected_agents')
                        = Others(infected_agents, agent) \cup {<<e.to, days>>}
                   /\ Entries(healthy_agents') = Others(healthy_agents, agent)
           /\ Len(healthy_agents') = Cardinality(KeySet(healthy_agents'))
           /\ Len(infected_agents') = Cardinality(KeySet(infected_agents'))
           /\ err' = "none"]_vars

\* an agent has stayed in place for want of a vacant cell within max_range,
\* and the infected agent processed last has relocated with a day-count of 1
\* or more
C15_Witness ==
  /\ self = "VirusModel" /\ InIteration /\ hist # <<>>
  /\ \E k \in 1..Len(hist) :
       hist[k].kind # "died" /\ hist[k].to = hist[k].agent
  /\ Last(hist).kind = "ill" /\ Last(hist).to # Last(hist).agent
  /\ DictGet(infected_agents, Last(hist).to) >= 1

\* the agents processed so far in the iteration, and the agents present at
\* its start in the order of the loops
ProcessedAgents == [k \in 1..Len(hist) |-> hist[k].agent]
SnapshotKeys ==
  IF self = "VirusModel"
  THEN DictKeys(old_i_agents) \o DictKeys(old_h_agents)
  ELSE DictKeys(old_agents)

IsPrefix(a, b) == Len(a) <= Len(b) /\ a = SubSeq(b, 1, Len(a))

\* update of either model has been called
InUpdate == self \in {"VirusModel", "Schelling"} /\ pc \notin {"init", "populated"}

\* no agent is processed twice in an iteration: the agents processed are the
\* first agents of the snapshot, each once, and none of them is at a cell
\* that an agent processed before it has moved to
C16_AtMostOnce ==
  /\ NoDuplicates(SnapshotKeys)
  /\ IsPrefix(ProcessedAgents, SnapshotKeys)
  /\ \A j, k \in 1..Len(hist) : j < k => hist[j].to # hist[k].agent

\* infection model: an agent that does not die relocates exactly if, at the
\* moment it is processed, a cell within max_range is in empty_spots
C16_MovesIfItCan ==
  MoveCall => (Last(hist').to # Current <=> Candidates(Current) # {})

\* C16: in every iteration of either model each agent present at the start
\* of the iteration is processed exactly once (when the iteration is over the
\* agents processed are the agents of the snapshot) and relocates at most
\* once; in the infection model every agent that does not die relocates
\* exactly if, at the moment it is processed, at least one cell within
\* max_range is in empty_spots, and otherwise stays in place.
C16_OncePerIteration ==
  /\ [](InUpdate =>
          /\ C16_AtMostOnce
          /\ pc \in {"for_i", "done", "raised"} => ProcessedAgents = SnapshotKeys)
  /\ [][C16_MovesIfItCan]_vars

\* what holds of C16 on the code: the same, for the iterations that are not
\* ended by an exception
C16_OncePerIterationIfReturned ==
  /\ [](InUpdate =>
          /\ C16_AtMostOnce
          /\ pc \in {"for_i", "done"} => ProcessedAgents = SnapshotKeys)
  /\ [][C16_MovesIfItCan]_vars

\* the step processes an agent of a snapshot of the infection model
AgentStep == self = "VirusModel" /\ InIteration /\ idx' = idx + 1

\* C17: infection model: the day-count of an agent is 0 after populate and
\* when it becomes infected; an infected agent that is processed and survives
\* the mortality roll recovers if its day-count is > cycle_time (it is then in
\* healthy_agents and not in infected_agents) and otherwise stays infected
\* with its day-count increased by exactly 1, at its own or its relocated
\* cell; no step changes the day-count of another agent; at every iteration
\* boundary every value in infected_agents lies in 0..cycle_time+1.
C17_DayCount ==
  /\ []((self = "VirusModel" /\ AtBoundary) =>
          \A k \in 1..Len(infected_agents) :
            infected_agents[k][2] \in 0..(cycle_time + 1))
  /\ []((self = "VirusModel" /\ pc = "populated") =>
          \A k \in 1..Len(infected_agents) : infected_agents[k][2] = 0)
  /\ [][AgentStep =>
          LET agent == Current
              e     == Last(hist')
          IN  /\ Others(infected_agents, agent) \subseteq Entries(infected_agents')
              /\ IF pc = "for_healthy"
                 THEN e.kind = "contracted" =>
                        <<e.to, 0>> \in Entries(infected_agents')
                 ELSE IF n_deaths' # n_deaths
                 THEN /\ e.kind = "died"
                      /\ Entries(infected_agents') = Others(infected_agents, agent)
                      /\ healthy_agents' = healthy_agents
                 ELSE IF DictGet(infected_agents, agent) > cycle_time
                 THEN /\ e.kind = "recovered"
                      /\ <<e.to, 0>> \in Entries(healthy_agents')
                      /\ Entries(infected_agents') = Others(infected_agents, agent)
                 ELSE /\ e.kind = "ill"
                      /\ <<e.to, DictGet(infected_agents, agent) + 1>>
                           \in Entries(infected_agents')
                      /\ Entries(healthy_agents') = Entries(healthy_agents)]_vars

\* in the second iteration an agent has recovered and relocated, and an agent
\* infected in the first iteration has reached the day-count cycle_time + 1
C17_Witness ==
  /\ self = "VirusModel" /\ AtBoundary /\ Len(deaths_per_iter) = 2
  /\ \E k \in 1..Len(hist) :
       hist[k].kind = "recovered" /\ hist[k].to # hist[k].agent
  /\ \E k \in 1..Len(infected_agents) : infected_agents[k][2] = cycle_time + 1

\* the cells of [x - r, x + r] x [y - r, y + r] for the cell <<x, y>>
Box(cell, r) ==
  ((cell[1] - r)..(cell[1] + r)) \X ((cell[2] - r)..(cell[2] + r))

\* list holds each cell of the box of radius r around cell once, but not cell
\* itself: (2r+1)^2 - 1 cells, whether on the grid or not
IsNeighborhood(list, cell, r) ==
  /\ Len(list) = (2 * r + 1) * (2 * r + 1) - 1
  /\ Cardinality(Range(list)) = Len(list)
  /\ Range(list) = Box(cell, r) \ {cell}

\* list holds each cell of the box of radius r around cell once, cell itself
\* included: (2r+1)^2 cells
IsNeighborhoodWithSelf(list, cell, r) ==
  /\ Len(list) = (2 * r + 1) * (2 * r + 1)
  /\ Cardinality(Range(list)) = Len(list)
  /\ Range(list) = Box(cell, r)

\* the neighbourhood of radius 1, computed by contracted for the healthy
\* agent processed last or by is_unsatisfied for the agent of the segregation
\* model processed last, is as C18 says
C18_RadiusOne ==
  hist # <<>> =>
    LET e == Last(hist)
    IN  /\ e.kind \in {"contracted", "well"} =>
             IsNeighborhood(contracted_neighbors(e.agent), e.agent, 1)
        /\ e.kind \in {"moved", "stayed"} =>
             IsNeighborhood(is_unsatisfied_neighbors(e.agent[1], e.agent[2]),
                            e.agent, 1)

\* move_to_empty was called for the agent processed last
MoveCalled ==
  hist # <<>> /\ Last(hist).kind \in {"recovered", "ill", "contracted", "well"}

\* C18 as stated: every neighbourhood computation (contracted, move_to_empty,
\* is_unsatisfied) with radius r at (x, y) yields, before the intersection,
\* exactly the (2r+1)^2 - 1 cells of [x-r, x+r] x [y-r, y+r] other than
\* (x, y), not clipped to the grid.
C18_NeighborhoodWithoutSelf ==
  /\ C18_RadiusOne
  /\ MoveCalled =>
       IsNeighborhood(move_to_empty_neighbors(Last(hist).agent, max_range),
                      Last(hist).agent, max_range)

\* C18 as amended: contracted and is_unsatisfied yield the 8 cells around
\* (x, y); move_to_empty yields all (2r+1)^2 cells of
\* [x-r, x+r] x [y-r, y+r] for r = max_range, (x, y) itself included; none
\* is clipped to the grid.
C18_NeighborhoodOfMoveWithSelf ==
  /\ C18_RadiusOne
  /\ MoveCalled =>
       IsNeighborhoodWithSelf(
         move_to_empty_neighbors(Last(hist).agent, max_range),
         Last(hist).agent, max_range)

\* a healthy agent in a corner of the grid, part of whose neighbourhood is
\* off the grid, was infected and relocated by more than one cell
C18_Witness ==
  /\ self = "VirusModel" /\ max_range = 2
  /\ \E k \in 1..Len(hist) :
       /\ hist[k].kind = "contracted"
       /\ hist[k].agent \in {<<0, 0>>, <<height - 1, width - 1>>}
       /\ hist[k].to # hist[k].agent
       /\ ~Within(hist[k].agent, hist[k].to, 1)

\* the inner loop of the segregation model is at an unsatisfied agent and no
\* house is empty
NoVacancy ==
  /\ self = "Schelling" /\ pc = "for_agent" /\ idx <= Len(old_agents)
  /\ empty_houses = <<>>
  /\ is_unsatisfied(old_agents[idx][1][1], old_agents[idx][1][2], agents,
                    tolerance)

\* C19: segregation model: when an agent is unsatisfied and empty_houses is
\* empty, the agent stays in place, agents and empty_houses are unchanged and
\* update goes on to the next agent; no error is ever raised.
C19_NoVacancyIsNormal ==
  /\ [](self = "Schelling" => (err = "none" /\ pc # "raised"))
  /\ [][NoVacancy =>
          /\ agents' = agents /\ empty_houses' = empty_houses
          /\ pc' = "for_agent" /\ idx' = idx + 1]_vars

\* the agent the inner loop is at is in the mapping that its rule reads and
\* deletes from
KeyPresent ==
  /\ (pc = "for_infected" /\ idx <= Len(old_i_agents)) =>
       DictHas(infected_agents, old_i_agents[idx][1])
  /\ (pc = "for_healthy" /\ idx <= Len(old_h_agents)) =>
       DictHas(healthy_agents, old_h_agents[idx][1])
  /\ (pc = "for_agent" /\ idx <= Len(old_agents)) =>
       (DictHas(agents, old_agents[idx][1]) /\ empty_houses # <<>>)

\* the step relocates an agent
RelocationStep ==
  /\ Len(hist') = Len(hist) + 1
  /\ Last(hist').to \notin {None, Last(hist').agent}

\* C20: in both models, in every state of update started from a populated
\* model with at least one empty cell: the snapshot key the inner loop is at
\* is present in the live mapping its rule reads or deletes from, every
\* relocation target is in the empty-set when it is removed from it, and no
\* error is raised.
C20_KeysPresent ==
  /\ []((InUpdate /\ n_empty >= 1) =>
          (KeyPresent /\ err = "none" /\ pc # "raised"))
  /\ [][(InUpdate /\ n_empty >= 1 /\ RelocationStep) =>
          /\ Last(hist').to \in Range(EmptySet)
          /\ Last(hist').to \notin Range(EmptySet')]_vars

\* in the second iteration of the infection model, after a death in the
\* first, an agent has relocated
C20_Witness ==
  /\ self = "VirusModel" /\ n_empty >= 1 /\ i = 1
  /\ SumSeq(deaths_per_iter) > 0
  /\ InIteration /\ Relocated

\* C21: in either model, in every state after populate: every key of a
\* population mapping and every element of the empty-set is a cell of the
\* grid populate created, the empty-set holds no cell twice, and every agent
\* processed in the current iteration that is still alive is at a cell of the
\* grid (no agent is relocated outside the grid), although the
\* neighbourhoods are not clipped to it.
C21_OnTheGrid ==
  (self \in {"VirusModel", "Schelling"} /\ pc # "init") =>
    /\ Inhabited \subseteq GridCells
    /\ Range(EmptySet) \subseteq GridCells
    /\ NoDuplicates(EmptySet)
    /\ \A k \in 1..Len(hist) : hist[k].to \in GridCells \cup {None}

\* two iterations of the infection model with max_range = 2 have completed,
\* and in the second an agent at the edge of the grid, whose neighbourhood is
\* partly off the grid, has relocated
C21_Witness ==
  /\ self = "VirusModel" /\ max_range = 2
  /\ Len(deaths_per_iter) = 2
  /\ \E k \in 1..Len(hist) :
       /\ hist[k].to \notin {None, hist[k].agent}
       /\ Box(hist[k].agent, max_range) \ GridCells # {}

====
